---- MODULE Spec2Model ----
(***************************************************************************)
(* A model of the jwfoods delivery-cost backend (src/app.py): the three    *)
(* tables, the init-db command and the HTTP handlers, each handler split   *)
(* at its database round trips so that requests served by different        *)
(* workers interleave the way the store lets them.                         *)
(*                                                                         *)
(* Numbers.  A Python float is a record [nan, v].  Coefficients, distances *)
(* and weights are counted in quarters (v = 2 is 0.5), a raw cost in       *)
(* sixteenths and a rounded cost in hundredths: all values are dyadic, so  *)
(* the float arithmetic of the handler is exact and round(x, 2) is the     *)
(* round-half-even of the exact value.                                     *)
(* Text.  A string is a sequence of one-character strings.                 *)
(* Time.  datetime.utcnow() is a strictly increasing clock, now.           *)
(***************************************************************************)
EXTENDS Integers, Sequences, FiniteSets, TLC

VARIABLES
    tables,         \* TRUE when the three tables exist
    coefficients,   \* the rows of delivery_coefficients
    calculations,   \* the rows of delivery_calculations, in insertion order
    contacts,       \* the rows of contact_submissions, in insertion order
    now,            \* the clock read by datetime.utcnow
    cli,            \* the position of the flask init-db command
    pc,             \* each worker's position in the handler it runs
    req,            \* each worker's request in progress
    loc,            \* each worker's handler locals (ORM objects it loaded)
    sent,           \* the last response sent, with the request it answers
    initRun         \* history: TRUE once the init-db command has been started

vars == <<tables, coefficients, calculations, contacts, now, cli,
          pc, req, loc, sent, initRun>>

store == <<tables, coefficients, calculations, contacts>>

----------------------------------------------------------------------------
(* Bounds *)

MaxClock == 3
MaxCalcs == 2
MaxContacts == 2
MaxPageRecs == 25

Workers == {"w1", "w2"}

----------------------------------------------------------------------------
(* Floats *)

F(n) == [nan |-> FALSE, v |-> n]
NaN == [nan |-> TRUE, v |-> 0]

\* a < b, a <= b and a >= b on floats: every comparison with NaN is false
FLt(a, b) == ~a.nan /\ ~b.nan /\ a.v < b.v
FLe(a, b) == ~a.nan /\ ~b.nan /\ a.v <= b.v
FGe(a, b) == ~a.nan /\ ~b.nan /\ a.v >= b.v

\* Round2 as a truncation to 2 decimals
Round2Truncating(n) == (25 * n) \div 4

\* round(x, 2) of x = n/16, in hundredths: n/16 = (25n/4)/100, half to even
Round2(n) ==
    LET q == (25 * n) \div 4
        r == (25 * n) % 4
    IN  IF r < 2 THEN q
        ELSE IF r > 2 THEN q + 1
        ELSE IF q % 2 = 0 THEN q ELSE q + 1

\* base_cost + distance_coefficient*distance + weight_coefficient*weight,
\* rounded to 2 decimals; the result in hundredths
ComputeCost(row, distance, weight) ==
    IF row.distance_coefficient.nan \/ row.weight_coefficient.nan
       \/ row.base_cost.nan
    THEN NaN
    ELSE F(Round2(4 * row.base_cost.v
                  + row.distance_coefficient.v * distance
                  + row.weight_coefficient.v * weight))

----------------------------------------------------------------------------
(* Text *)

DigitOf == [c \in {"0", "1", "2", "3", "4", "5", "6", "7", "8", "9"} |->
              CASE c = "0" -> 0 [] c = "1" -> 1 [] c = "2" -> 2 [] c = "3" -> 3
                [] c = "4" -> 4 [] c = "5" -> 5 [] c = "6" -> 6 [] c = "7" -> 7
                [] c = "8" -> 8 [] c = "9" -> 9]

IsDigits(s) == \A i \in 1..Len(s) : s[i] \in DOMAIN DigitOf

RECURSIVE DigitsVal(_)
DigitsVal(s) ==
    IF s = <<>> THEN 0
    ELSE 10 * DigitsVal(SubSeq(s, 1, Len(s) - 1)) + DigitOf[s[Len(s)]]

RECURSIVE Pow10(_)
Pow10(k) == IF k = 0 THEN 1 ELSE 10 * Pow10(k - 1)

\* str.strip(): leading and trailing blanks removed
RECURSIVE Strip(_)
Strip(s) ==
    IF s = <<>> THEN s
    ELSE IF s[1] = " " THEN Strip(Tail(s))
    ELSE IF s[Len(s)] = " " THEN Strip(SubSeq(s, 1, Len(s) - 1))
    ELSE s

Contains(s, c) == \E i \in 1..Len(s) : s[i] = c

\* float(text) for an unsigned decimal "ddd" or "ddd.ddd", in quarters
ParseUnsigned(s) ==
    LET dots == {i \in 1..Len(s) : s[i] = "."}
    IN  IF dots = {}
        THEN IF s # <<>> /\ IsDigits(s)
             THEN [ok |-> TRUE, val |-> F(4 * DigitsVal(s))]
             ELSE [ok |-> FALSE, val |-> NaN]
        ELSE LET d == CHOOSE i \in dots : TRUE
                 ip == SubSeq(s, 1, d - 1)
                 fp == SubSeq(s, d + 1, Len(s))
             IN  IF Cardinality(dots) = 1 /\ IsDigits(ip) /\ IsDigits(fp)
                    /\ Len(ip) + Len(fp) > 0
                 THEN [ok |-> TRUE,
                       val |-> F((4 * (DigitsVal(ip) * Pow10(Len(fp))
                                       + DigitsVal(fp))) \div Pow10(Len(fp)))]
                 ELSE [ok |-> FALSE, val |-> NaN]

\* float(text): ok = FALSE is ValueError
ParseFloat(s) ==
    LET t == Strip(s)
    IN  IF t = <<"n", "a", "n">> THEN [ok |-> TRUE, val |-> NaN]
        ELSE IF t # <<>> /\ t[1] = "-"
        THEN LET u == ParseUnsigned(Tail(t))
             IN  IF u.ok THEN [ok |-> TRUE, val |-> F(0 - u.val.v)] ELSE u
        ELSE ParseUnsigned(t)

----------------------------------------------------------------------------
(* Rows *)

CoefRow(id, dc, wc, bc, at) ==
    [id |-> id, distance_coefficient |-> dc, weight_coefficient |-> wc,
     base_cost |-> bc, updated_at |-> at]

CalcRow(id, d, w, cost, at) ==
    [id |-> id, distance |-> d, weight |-> w, calculated_cost |-> cost,
     calculated_at |-> at]

ContactRow(id, name, email, phone, message, at) ==
    [id |-> id, name |-> name, email |-> email, phone |-> phone,
     message |-> message, submitted_at |-> at]

\* what query.first() returns for an empty table
NoRow == CoefRow(0, NaN, NaN, NaN, 0)

\* Python's None in a text column
None == <<"None">>

\* the autoincrement primary key of the next row
NextId(ids) == IF ids = {} THEN 1 ELSE (CHOOSE m \in ids : \A i \in ids : i <= m) + 1

\* DeliveryCoefficients.query.first(): SELECT ... LIMIT 1 with no ORDER BY,
\* so any row of the table may come back; NoRow when there is none
First(rows) == IF rows = {} THEN {NoRow} ELSE rows

\* the defaults of init-db and of the form fields
DefaultCoef == F(2)
DefaultBase == F(20)

----------------------------------------------------------------------------
(* The database in force (DATABASE_URL): SQLite binds a NaN as NULL, which  *)
(* the NOT NULL float columns refuse (IntegrityError); PostgreSQL stores    *)
(* it.  Accepts(values) is the set of answers a commit of these values can  *)
(* get: TRUE stored, FALSE refused.                                         *)

Accepts(values) == IF \E x \in values : x.nan THEN {TRUE, FALSE} ELSE {TRUE}

----------------------------------------------------------------------------
(* Initial state: the application object is built, nothing has run, the    *)
(* database named by DATABASE_URL holds no table.                          *)

NoLoc == [row |-> NoRow, dc |-> NaN, wc |-> NaN, bc |-> NaN, cost |-> NaN, id |-> 0]
NoReq == [op |-> "none"]
NoResp == [status |-> 0]

Init ==
    /\ tables = FALSE
    /\ coefficients = {}
    /\ calculations = <<>>
    /\ contacts = <<>>
    /\ now = 0
    /\ cli = "idle"
    /\ pc = [p \in Workers |-> "idle"]
    /\ req = [p \in Workers |-> NoReq]
    /\ loc = [p \in Workers |-> NoLoc]
    /\ sent = [req |-> NoReq, resp |-> NoResp]
    /\ initRun = FALSE

----------------------------------------------------------------------------
(* flask init-db *)

\* db.drop_all()
InitDrop ==
    /\ cli = "idle"
    /\ cli' = "dropped"
    /\ tables' = FALSE
    /\ coefficients' = {}
    /\ calculations' = <<>>
    /\ contacts' = <<>>
    /\ initRun' = TRUE
    /\ UNCHANGED <<now, pc, req, loc, sent>>

\* db.create_all()
InitCreate ==
    /\ cli = "dropped"
    /\ cli' = "created"
    /\ tables' = TRUE
    /\ UNCHANGED <<coefficients, calculations, contacts, now, pc, req, loc,
                   sent, initRun>>

\* if not DeliveryCoefficients.query.first()
InitCheck ==
    /\ cli = "created"
    /\ \E r \in First(coefficients) :
         cli' = IF r = NoRow THEN "seeding" ELSE "idle"
    /\ UNCHANGED <<store, now, pc, req, loc, sent, initRun>>

\* db.session.add(default_coeffs); db.session.commit()
InitSeed ==
    /\ cli = "seeding"
    /\ cli' = "idle"
    /\ coefficients' = coefficients \cup
          {CoefRow(NextId({r.id : r \in coefficients}), DefaultCoef,
                   DefaultCoef, DefaultBase, now)}
    /\ now' = now + 1
    /\ UNCHANGED <<tables, calculations, contacts, pc, req, loc, sent, initRun>>

----------------------------------------------------------------------------
(* Requests *)

\* JSON values of a request body
Null == [k |-> "null", v |-> 0]
Str == [k |-> "str", v |-> 0]
Num(n) == [k |-> "num", v |-> n]

\* a form field or query argument: absent, or its text
Absent == [present |-> FALSE, text |-> <<>>]
Field(t) == [present |-> TRUE, text |-> t]

\* worker p answers request rq with response r and is idle again
Finish(p, rq, r) ==
    /\ pc' = [pc EXCEPT ![p] = "idle"]
    /\ req' = [req EXCEPT ![p] = NoReq]
    /\ loc' = [loc EXCEPT ![p] = NoLoc]
    /\ sent' = [req |-> rq, resp |-> r]

\* worker p goes on with request rq at position at, with locals l
Continue(p, rq, at, l) ==
    /\ pc' = [pc EXCEPT ![p] = at]
    /\ req' = [req EXCEPT ![p] = rq]
    /\ loc' = [loc EXCEPT ![p] = l]
    /\ sent' = sent

Error(status, error) == [status |-> status, error |-> error]

----------------------------------------------------------------------------
(* POST /api/calculate-delivery *)

CalcReq(body) == [op |-> "calc", body |-> body]

\* the checks before the store is read: 0 when the body passes, else the
\* status of the rejection.  A str compared with 0 raises TypeError, which
\* the handler's except turns into a 500; "or" evaluates left to right.
CalcValidate(body) ==
    IF ~body.present THEN 400
    ELSE IF body.distance.k = "null" \/ body.weight.k = "null" THEN 400
    ELSE IF body.distance.k = "str" THEN 500
    ELSE IF body.distance.v <= 0 THEN 400
    ELSE IF body.weight.k = "str" THEN 500
    ELSE IF body.weight.v <= 0 THEN 400
    ELSE 0

\* request.get_json() ... coeffs = DeliveryCoefficients.query.first() ...
\* calculated_cost = round(..., 2)
CalcBegin(p, body) ==
    /\ pc[p] = "idle"
    /\ \E r \in First(coefficients) :
         IF CalcValidate(body) # 0
         THEN Finish(p, CalcReq(body), Error(CalcValidate(body), "invalid"))
         ELSE IF ~tables
         THEN Finish(p, CalcReq(body), Error(500, "Calculation failed"))
         ELSE IF r = NoRow
         THEN Finish(p, CalcReq(body), Error(500, "not configured"))
         ELSE Continue(p, CalcReq(body), "calc_commit",
                       [NoLoc EXCEPT !.row = r,
                          !.cost = ComputeCost(r, body.distance.v, body.weight.v)])
    /\ UNCHANGED <<store, now, cli, initRun>>

\* db.session.add(calculation); db.session.commit()
CalcCommit(p) ==
    /\ pc[p] = "calc_commit"
    /\ \E stored \in Accepts({loc[p].cost}) :
       IF ~tables \/ ~stored
       THEN /\ Finish(p, req[p], Error(500, "Calculation failed"))
            /\ UNCHANGED <<calculations, now>>
       ELSE /\ calculations' = Append(calculations,
                  CalcRow(NextId({calculations[i].id : i \in DOMAIN calculations}),
                          F(req[p].body.distance.v), F(req[p].body.weight.v),
                          loc[p].cost, now))
            /\ now' = now + 1
            /\ Continue(p, req[p], "calc_respond", loc[p])
    /\ UNCHANGED <<tables, coefficients, contacts, cli, initRun>>

\* the triple the response reports: coeffs was expired by the commit, so
\* reading its attributes loads the row again by primary key
CoefficientsUsed(loaded, rows) ==
    LET cur == CHOOSE r \in rows : r.id = loaded.id
    IN  [distance_coefficient |-> cur.distance_coefficient,
         weight_coefficient |-> cur.weight_coefficient,
         base_cost |-> cur.base_cost]

\* return jsonify({... 'coefficients_used': {...}})
CalcRespond(p) ==
    /\ pc[p] = "calc_respond"
    /\ IF ~tables \/ ~\E r \in coefficients : r.id = loc[p].row.id
       THEN Finish(p, req[p], Error(500, "Calculation failed"))
       ELSE Finish(p, req[p],
                   [status |-> 200, cost |-> loc[p].cost,
                    distance |-> req[p].body.distance.v,
                    weight |-> req[p].body.weight.v,
                    coefficients_used |->
                        CoefficientsUsed(loc[p].row, coefficients)])
    /\ UNCHANGED <<store, now, cli, initRun>>

----------------------------------------------------------------------------
(* POST /api/contact *)

ContactReq(body) == [op |-> "contact", body |-> body]

\* 0 when the body passes the checks, else 400
ContactValidate(body) ==
    IF ~body.present THEN 400
    ELSE IF Strip(body.name) = <<>> \/ Strip(body.email) = <<>>
            \/ Strip(body.message) = <<>> THEN 400
    ELSE IF ~Contains(Strip(body.email), "@") \/ ~Contains(Strip(body.email), ".")
    THEN 400
    ELSE 0

\* Submission with the fields stored as they were sent, not stripped
SubmissionAsSent(id, body, at) ==
    ContactRow(id, body.name, body.email,
               IF Strip(body.phone) = <<>> THEN None ELSE body.phone,
               body.message, at)

\* the row the handler builds from the body
Submission(id, body, at) ==
    ContactRow(id, Strip(body.name), Strip(body.email),
               IF Strip(body.phone) = <<>> THEN None ELSE Strip(body.phone),
               Strip(body.message), at)

\* request.get_json() ... db.session.add(submission); db.session.commit()
ContactBegin(p, body) ==
    /\ pc[p] = "idle"
    /\ IF ContactValidate(body) # 0
       THEN /\ Finish(p, ContactReq(body), Error(400, "invalid"))
            /\ UNCHANGED <<contacts, now>>
       ELSE IF ~tables
       THEN /\ Finish(p, ContactReq(body), Error(500, "Failed to submit contact form"))
            /\ UNCHANGED <<contacts, now>>
       ELSE LET id == NextId({contacts[i].id : i \in DOMAIN contacts})
            IN  /\ contacts' = Append(contacts, Submission(id, body, now))
                /\ now' = now + 1
                /\ Continue(p, ContactReq(body), "con_respond",
                            [NoLoc EXCEPT !.id = id])
    /\ UNCHANGED <<tables, coefficients, calculations, cli, initRun>>

\* return jsonify({... 'submission_id': submission.id}): the commit expired
\* submission, so reading its id loads the row again
ContactRespond(p) ==
    /\ pc[p] = "con_respond"
    /\ IF ~tables \/ ~\E i \in DOMAIN contacts : contacts[i].id = loc[p].id
       THEN Finish(p, req[p], Error(500, "Failed to submit contact form"))
       ELSE Finish(p, req[p], [status |-> 200, submission_id |-> loc[p].id])
    /\ UNCHANGED <<store, now, cli, initRun>>

----------------------------------------------------------------------------
(* GET /api/coefficients *)

GetReq == [op |-> "get"]

\* the responses the handler can give when the store is (exists, rows)
GetAnswers(exists, rows) ==
    IF ~exists THEN {Error(500, "Failed to get coefficients")}
    ELSE {IF r = NoRow THEN Error(404, "No coefficients found")
          ELSE [status |-> 200, coefficients |-> r] : r \in First(rows)}

GetCoefficients(p) ==
    /\ pc[p] = "idle"
    /\ \E a \in GetAnswers(tables, coefficients) : Finish(p, GetReq, a)
    /\ UNCHANGED <<store, now, cli, initRun>>

----------------------------------------------------------------------------
(* POST /admin/update-coefficients *)

UpdateReq(form) == [op |-> "update", form |-> form]

\* float(request.form.get(name, default))
FormFloat(field, default) ==
    IF field.present THEN ParseFloat(field.text) ELSE [ok |-> TRUE, val |-> default]

\* AnyNegative with the check of distance_coeff left out
AnyNegativeButDistance(dc, wc, bc) == FLt(wc, F(0)) \/ FLt(bc, F(0))

\* distance_coeff < 0 or weight_coeff < 0 or base_cost < 0
AnyNegative(dc, wc, bc) == FLt(dc, F(0)) \/ FLt(wc, F(0)) \/ FLt(bc, F(0))

\* a == b on floats, as the ORM compares a new value with the loaded one
FEq(a, b) == ~a.nan /\ ~b.nan /\ a.v = b.v

\* the UPDATE the commit flushes: it sets the columns whose new value
\* differs from the value the handler loaded, and updated_at
UpdatedRow(cur, loaded, dc, wc, bc, at) ==
    [cur EXCEPT
       !.distance_coefficient =
           IF FEq(dc, loaded.distance_coefficient) THEN @ ELSE dc,
       !.weight_coefficient =
           IF FEq(wc, loaded.weight_coefficient) THEN @ ELSE wc,
       !.base_cost = IF FEq(bc, loaded.base_cost) THEN @ ELSE bc,
       !.updated_at = at]

Flash(category, message) == [status |-> 302, category |-> category, message |-> message]

\* the three float(...) calls, the sign check and query.first()
UpdateBegin(p, form) ==
    LET dc == FormFloat(form.distance_coefficient, DefaultCoef)
        wc == FormFloat(form.weight_coefficient, DefaultCoef)
        bc == FormFloat(form.base_cost, DefaultBase)
    IN
    /\ pc[p] = "idle"
    /\ \E r \in First(coefficients) :
         IF ~dc.ok \/ ~wc.ok \/ ~bc.ok
         THEN Finish(p, UpdateReq(form),
                     Flash("error", "Please enter valid numeric values"))
         ELSE IF AnyNegative(dc.val, wc.val, bc.val)
         THEN Finish(p, UpdateReq(form),
                     Flash("error", "All coefficients must be positive values"))
         ELSE IF ~tables
         THEN Finish(p, UpdateReq(form),
                     Flash("error", "Error updating coefficients"))
         ELSE Continue(p, UpdateReq(form), "upd_commit",
                       [NoLoc EXCEPT !.row = r, !.dc = dc.val, !.wc = wc.val,
                                     !.bc = bc.val])
    /\ UNCHANGED <<store, now, cli, initRun>>

\* the assignments to coeffs (or the new row) and db.session.commit(); an
\* UPDATE that matches no row is a StaleDataError
UpdateCommit(p) ==
    LET l == loc[p]
        stale == l.row # NoRow /\ ~\E r \in coefficients : r.id = l.row.id
    IN
    /\ pc[p] = "upd_commit"
    /\ \E stored \in Accepts({l.dc, l.wc, l.bc}) :
       IF ~tables \/ ~stored \/ stale
       THEN /\ Finish(p, req[p], Flash("error", "Error updating coefficients"))
            /\ UNCHANGED <<coefficients, now>>
       ELSE /\ Finish(p, req[p], Flash("success", "Coefficients updated successfully!"))
            /\ now' = now + 1
            /\ coefficients' =
                 IF l.row = NoRow
                 THEN coefficients \cup
                        {CoefRow(NextId({r.id : r \in coefficients}),
                                 l.dc, l.wc, l.bc, now)}
                 ELSE {IF r.id = l.row.id
                       THEN UpdatedRow(r, l.row, l.dc, l.wc, l.bc, now)
                       ELSE r : r \in coefficients}
    /\ UNCHANGED <<tables, calculations, contacts, cli, initRun>>

----------------------------------------------------------------------------
(* GET /admin/calculations and GET /admin/contacts *)

PerPage == 20

\* int(text): ok = FALSE is ValueError
ParseInt(s) ==
    LET t == Strip(s)
    IN  IF t # <<>> /\ t[1] = "-" /\ Len(t) > 1 /\ IsDigits(Tail(t))
        THEN [ok |-> TRUE, val |-> 0 - DigitsVal(Tail(t))]
        ELSE IF t # <<>> /\ IsDigits(t)
        THEN [ok |-> TRUE, val |-> DigitsVal(t)]
        ELSE [ok |-> FALSE, val |-> 0]

\* request.args.get('page', 1, type=int)
PageArg(field) ==
    IF field.present /\ ParseInt(field.text).ok THEN ParseInt(field.text).val ELSE 1

\* query.order_by(<timestamp>.desc()): the rows sorted, newest first
OrderByDesc(rows, key) == SortSeq(rows, LAMBDA a, b : a[key] > b[key])

\* Paginate with the page taken as 0-based: OFFSET page * per_page
PaginateFromZero(rows, page, per_page) ==
    LET pg == IF page < 1 THEN 1 ELSE page
        offset == pg * per_page
        last == IF offset + per_page < Len(rows) THEN offset + per_page ELSE Len(rows)
    IN  IF offset >= Len(rows) THEN <<>> ELSE SubSeq(rows, offset + 1, last)

\* paginate(page=page, per_page=per_page, error_out=False): a page below 1
\* becomes 1; LIMIT per_page OFFSET (page - 1) * per_page
Paginate(rows, page, per_page) ==
    LET pg == IF page < 1 THEN 1 ELSE page
        offset == (pg - 1) * per_page
        last == IF offset + per_page < Len(rows) THEN offset + per_page ELSE Len(rows)
    IN  IF offset >= Len(rows) THEN <<>> ELSE SubSeq(rows, offset + 1, last)

CalculatedAt == "calculated_at"
SubmittedAt == "submitted_at"

Listing(items) == [status |-> 200, flashed |-> FALSE, items |-> items]
ListingFailed == [status |-> 200, flashed |-> TRUE, items |-> <<>>]

ListReq(op, page) == [op |-> op, page |-> page]

AdminCalculations(p, page) ==
    /\ pc[p] = "idle"
    /\ IF ~tables THEN Finish(p, ListReq("calculations", page), ListingFailed)
       ELSE Finish(p, ListReq("calculations", page),
                   Listing(Paginate(OrderByDesc(calculations, CalculatedAt),
                                    PageArg(page), PerPage)))
    /\ UNCHANGED <<store, now, cli, initRun>>

AdminContacts(p, page) ==
    /\ pc[p] = "idle"
    /\ IF ~tables THEN Finish(p, ListReq("contacts", page), ListingFailed)
       ELSE Finish(p, ListReq("contacts", page),
                   Listing(Paginate(OrderByDesc(contacts, SubmittedAt),
                                    PageArg(page), PerPage)))
    /\ UNCHANGED <<store, now, cli, initRun>>

----------------------------------------------------------------------------
(* The requests the workers are sent *)

Body(d, w) == [present |-> TRUE, distance |-> d, weight |-> w]
NoBody == [present |-> FALSE, distance |-> Null, weight |-> Null]

CalcBodies ==
    {NoBody, Body(Null, Num(2)), Body(Str, Num(0)), Body(Num(0 - 4), Num(2)),
     Body(Num(2), Num(0)), Body(Num(2), Str), Body(Num(1), Num(2))}

Form(dc, wc, bc) ==
    [distance_coefficient |-> dc, weight_coefficient |-> wc, base_cost |-> bc]

UpdateForms ==
    {Form(Absent, Absent, Absent),
     Form(Field(<<"0", ".", "2", "5">>), Field(<<"0", ".", "5">>), Field(<<"4">>)),
     Form(Field(<<"-", "1">>), Field(<<"0", ".", "5">>), Field(<<"5">>)),
     Form(Field(<<"0", ".", "5">>), Field(<<"a", "b", "c">>), Field(<<"5">>)),
     Form(Field(<<"n", "a", "n">>), Field(<<"0", ".", "5">>), Field(<<"5">>))}

\* the forms of UpdateForms that pass the handler's checks
AcceptedForms ==
    {Form(Absent, Absent, Absent),
     Form(Field(<<"0", ".", "2", "5">>), Field(<<"0", ".", "5">>), Field(<<"4">>))}

Message(name, email, phone, message) ==
    [present |-> TRUE, name |-> name, email |-> email, phone |-> phone,
     message |-> message]
NoMessage == [present |-> FALSE, name |-> <<>>, email |-> <<>>, phone |-> <<>>,
              message |-> <<>>]

ContactBodies ==
    {NoMessage,
     Message(<<" ", "a", " ">>, <<"a", "@", "b", ".", "c">>, <<>>, <<"m", " ">>),
     Message(<<"a">>, <<"a", "@", "b">>, <<"1">>, <<"m">>),
     Message(<<" ">>, <<"a", "@", "b", ".", "c">>, <<>>, <<"m">>)}

Pages == {Absent, Field(<<"x">>), Field(<<"-", "1">>), Field(<<"0">>),
          Field(<<"1">>), Field(<<"2">>), Field(<<"3">>)}

----------------------------------------------------------------------------
(* Specifications: two workers and the init-db command, interleaved at the *)
(* store's round trips.  Each one sends the workers the requests of one    *)
(* part of the interface.                                                  *)

InitDb ==
    \/ InitDrop
    \/ InitCreate
    \/ InitCheck
    \/ now < MaxClock /\ InitSeed

\* the coefficients: init-db, update-coefficients, GET /api/coefficients
Next ==
    \/ InitDb
    \/ \E p \in Workers :
         \/ GetCoefficients(p)
         \/ \E form \in UpdateForms : UpdateBegin(p, form)
         \/ now < MaxClock /\ UpdateCommit(p)

Spec == Init /\ [][Next]_vars

\* the calculations, with updates of the coefficients under way
NextCalc ==
    \/ InitDb
    \/ \E p \in Workers :
         \/ \E body \in CalcBodies : CalcBegin(p, body)
         \/ now < MaxClock /\ Len(calculations) < MaxCalcs /\ CalcCommit(p)
         \/ CalcRespond(p)
         \/ \E form \in AcceptedForms : UpdateBegin(p, form)
         \/ now < MaxClock /\ UpdateCommit(p)

SpecCalc == Init /\ [][NextCalc]_vars

\* the contact form
NextContact ==
    \/ InitDb
    \/ \E p \in Workers :
         \/ \E body \in ContactBodies :
              now < MaxClock /\ Len(contacts) < MaxContacts /\ ContactBegin(p, body)
         \/ ContactRespond(p)
         \/ \E page \in Pages : AdminContacts(p, page)

SpecContact == Init /\ [][NextContact]_vars

\* the two listings, over a store that init-db seeded and that then took n
\* calculations and m contact submissions
InitPage ==
    \E n, m \in 0..MaxPageRecs :
        /\ tables = TRUE
        /\ coefficients = {CoefRow(1, DefaultCoef, DefaultCoef, DefaultBase, 0)}
        /\ calculations =
             [i \in 1..n |->
                CalcRow(i, F(1), F(2),
                        ComputeCost(CoefRow(1, DefaultCoef, DefaultCoef, DefaultBase, 0),
                                    1, 2), i)]
        /\ contacts =
             [j \in 1..m |->
                Submission(j, Message(<<"a">>, <<"a", "@", "b", ".", "c">>, <<>>,
                                      <<"m">>), n + j)]
        /\ now = n + m + 1
        /\ cli = "idle"
        /\ pc = [p \in Workers |-> "idle"]
        /\ req = [p \in Workers |-> NoReq]
        /\ loc = [p \in Workers |-> NoLoc]
        /\ sent = [req |-> NoReq, resp |-> NoResp]
        /\ initRun = TRUE

NextPage ==
    \E p \in Workers, page \in Pages :
        \/ AdminCalculations(p, page)
        \/ AdminContacts(p, page)

SpecPage == InitPage /\ [][NextPage]_vars

----------------------------------------------------------------------------
(* Properties.  A step answers a request when it changes sent; the store   *)
(* a handler reads is the unprimed one, the store it leaves the primed.    *)

\* this step sends the response to a request of kind op
Answered(op) == sent' # sent /\ sent'.req.op = op

\* worker p leaves position from for position to
Moves(p, from, to) == pc[p] = from /\ pc'[p] = to

\* db.drop_all() runs in this step
Drops == cli = "idle" /\ cli' = "dropped"

\* the three values a response or a row reports
Triple(r) == <<r.distance_coefficient, r.weight_coefficient, r.base_cost>>

\* the three values an update-coefficients form is parsed to
Parsed(form) ==
    <<FormFloat(form.distance_coefficient, DefaultCoef),
      FormFloat(form.weight_coefficient, DefaultCoef),
      FormFloat(form.base_cost, DefaultBase)>>

\* c is the float nearest to base + dc*d + wc*w at 2 decimals, an exact
\* tie going to the even hundredth (c in hundredths, the sum in sixteenths)
IsRound2(c, row, d, w) ==
    LET n == 4 * row.base_cost.v + row.distance_coefficient.v * d
             + row.weight_coefficient.v * w
    IN  IF \E x \in {row.base_cost, row.distance_coefficient, row.weight_coefficient} : x.nan
        THEN c.nan
        ELSE /\ ~c.nan
             /\ 16 * c.v - 100 * n <= 8
             /\ 100 * n - 16 * c.v <= 8
             /\ (16 * c.v - 100 * n \in {8, 0 - 8} => c.v % 2 = 0)

\* t is s without its leading and trailing blanks
IsTrimOf(t, s) ==
    /\ t # <<>> => t[1] # " " /\ t[Len(t)] # " "
    /\ \E a \in 1..(Len(s) + 1) :
          /\ a + Len(t) - 1 <= Len(s)
          /\ SubSeq(s, a, a + Len(t) - 1) = t
          /\ \A i \in 1..Len(s) : (i < a \/ i > a + Len(t) - 1) => s[i] = " "

HasText(s) == \E i \in 1..Len(s) : s[i] # " "

\* items are the rows ranked 20*(page-1)+1 .. min(20*page, N) by recency
RankedPage(items, rows, key, page) ==
    LET N == Len(rows)
        first == 20 * (page - 1)
    IN  /\ Len(items) = IF first >= N THEN 0
                        ELSE (IF 20 * page < N THEN 20 * page ELSE N) - first
        /\ \A k \in 1..Len(items) :
              /\ \E i \in 1..N : rows[i] = items[k]
              /\ Cardinality({j \in 1..N : rows[j][key] > items[k][key]})
                    = first + k - 1

\* the page parameter is a number p >= 1
PageFrom1(field) == field.present /\ ParseInt(field.text).ok /\ ParseInt(field.text).val >= 1

(* C1: a calculate-delivery request that carries both distance and weight, *)
(* one of them zero or negative, is answered 400 and stores no calculation *)
(* record.                                                                 *)
C1_NonPositiveIsRejected ==
    [][(/\ Answered("calc")
        /\ sent'.req.body.present
        /\ sent'.req.body.distance.k # "null"
        /\ sent'.req.body.weight.k # "null"
        /\ \/ sent'.req.body.distance.k = "num" /\ sent'.req.body.distance.v <= 0
           \/ sent'.req.body.weight.k = "num" /\ sent'.req.body.weight.v <= 0)
       => (sent'.resp.status = 400 /\ calculations' = calculations)]_vars

(* C2: a calculate-delivery request that succeeds adds exactly one         *)
(* calculation record, with the request's distance and weight and the cost *)
(* of the response, which is round(base_cost + distance_coefficient *      *)
(* distance + weight_coefficient * weight, 2) for the row the handler      *)
(* read; it changes no other record of any table.                          *)
C2_SuccessAddsOneRecord ==
    [][/\ \A p \in Workers : Moves(p, "calc_commit", "calc_respond") =>
            LET b == req[p].body
                rec == calculations'[Len(calculations')]
            IN  /\ Len(calculations') = Len(calculations) + 1
                /\ SubSeq(calculations', 1, Len(calculations)) = calculations
                /\ \A i \in 1..Len(calculations) : calculations[i].id # rec.id
                /\ rec.distance = F(b.distance.v)
                /\ rec.weight = F(b.weight.v)
                /\ rec.calculated_cost = loc[p].cost
                /\ IsRound2(rec.calculated_cost, loc[p].row, b.distance.v, b.weight.v)
                /\ loc'[p] = loc[p] /\ req'[p] = req[p]
                /\ tables' = tables /\ coefficients' = coefficients
                /\ contacts' = contacts
       /\ \A p \in Workers :
            (Moves(p, "calc_respond", "idle") /\ sent'.resp.status = 200) =>
                /\ sent'.req = req[p]
                /\ sent'.resp.cost = loc[p].cost
                /\ sent'.resp.distance = req[p].body.distance.v
                /\ sent'.resp.weight = req[p].body.weight.v
                /\ store' = store
       /\ (Answered("calc") /\ sent'.resp.status = 200) =>
            \E p \in Workers : Moves(p, "calc_respond", "idle")
       /\ \A p \in Workers :
            pc'[p] = "calc_respond" => pc[p] \in {"calc_commit", "calc_respond"}
       /\ calculations' # calculations =>
            Drops \/ \E p \in Workers : Moves(p, "calc_commit", "calc_respond")
      ]_vars

\* a calculation succeeded and its record stands beside an earlier one
C2_Witness ==
    /\ sent.req.op = "calc"
    /\ sent.resp.status = 200
    /\ Len(calculations) = 2
    /\ calculations[2].calculated_cost = sent.resp.cost
    /\ calculations[2].distance = F(sent.resp.distance)

\* the parse of each form an update-coefficients request may carry
ParsedForms == [form \in UpdateForms |-> Parsed(form)]

(* C3: an update-coefficients request with a negative parsed value or a    *)
(* non-numeric field leaves the store as it was, row or no row: it is      *)
(* answered without a change of the store and never goes on to the commit. *)
C3_RejectedUpdateKeepsStore ==
    [][/\ Answered("update") =>
            LET v == ParsedForms[sent'.req.form]
            IN  (\E i \in 1..3 : ~v[i].ok \/ FLt(v[i].val, F(0)))
                    => store' = store
       /\ \A p \in Workers :
            /\ (pc[p] # "upd_commit" /\ pc'[p] = "upd_commit") =>
                  LET v == ParsedForms[req'[p].form]
                  IN  /\ req'[p].op = "update"
                      /\ \A i \in 1..3 : v[i].ok /\ ~FLt(v[i].val, F(0))
            /\ (pc[p] = "upd_commit" /\ pc'[p] = "upd_commit") => req'[p] = req[p]
      ]_vars

\* a form with a negative value was answered while a row is stored
C3_Witness ==
    /\ sent.req.op = "update"
    /\ \A i \in 1..3 : Parsed(sent.req.form)[i].ok
    /\ \E i \in 1..3 : FLt(Parsed(sent.req.form)[i].val, F(0))
    /\ sent.resp.category = "error"
    /\ coefficients # {}

(* C4: once an update-coefficients request with three non-negative numeric *)
(* values has completed, GET /api/coefficients returns those three values. *)
C4_GetReflectsUpdate ==
    [][(/\ Answered("update")
        /\ \A i \in 1..3 : /\ Parsed(sent'.req.form)[i].ok
                           /\ FGe(Parsed(sent'.req.form)[i].val, F(0)))
       => \A a \in GetAnswers(tables', coefficients') :
             /\ a.status = 200
             /\ Triple(a.coefficients) =
                  <<Parsed(sent'.req.form)[1].val, Parsed(sent'.req.form)[2].val,
                    Parsed(sent'.req.form)[3].val>>]_vars

(* C5: GET /api/coefficients answers 404 before init-db has ever been run, *)
(* and the defaults (0.5, 0.5, 5.0) once init-db has completed with no     *)
(* update in between (no row stood in the table when init-db seeded it).   *)
C5_GetAroundInit ==
    [][/\ (Answered("get") /\ ~initRun) => sent'.resp.status = 404
       /\ (cli # "idle" /\ cli' = "idle" /\ coefficients = {}) =>
             \A a \in GetAnswers(tables', coefficients') :
                /\ a.status = 200
                /\ Triple(a.coefficients) = <<F(2), F(2), F(20)>>]_vars

(* C6: the coefficients_used of a successful calculate-delivery response   *)
(* are the coefficients the cost was computed from.                        *)
C6_CoefficientsUsedAreRead ==
    [][\A p \in Workers :
          (Moves(p, "calc_respond", "idle") /\ sent'.resp.status = 200) =>
              <<sent'.resp.coefficients_used.distance_coefficient,
                sent'.resp.coefficients_used.weight_coefficient,
                sent'.resp.coefficients_used.base_cost>> = Triple(loc[p].row)]_vars

(* C7: page p >= 1 of the calculations list and of the contacts list holds *)
(* the records ranked 20*(p-1)+1 .. min(20*p, N) by descending recency,    *)
(* and none when 20*(p-1) >= N.                                            *)
C7_PageHoldsItsRanks ==
    [][/\ (Answered("calculations") /\ tables /\ PageFrom1(sent'.req.page)) =>
            /\ ~sent'.resp.flashed
            /\ RankedPage(sent'.resp.items, calculations, CalculatedAt,
                          ParseInt(sent'.req.page.text).val)
       /\ (Answered("contacts") /\ tables /\ PageFrom1(sent'.req.page)) =>
            /\ ~sent'.resp.flashed
            /\ RankedPage(sent'.resp.items, contacts, SubmittedAt,
                          ParseInt(sent'.req.page.text).val)]_vars

\* 25 calculation records: page 2 was asked for and holds the 5 oldest
C7_Witness ==
    /\ Len(calculations) = 25
    /\ sent.req = ListReq("calculations", Field(<<"2">>))
    /\ Len(sent.resp.items) = 5
    /\ sent.resp.items[1].calculated_at = 5
    /\ sent.resp.items[5].calculated_at = 1

(* C8: a contact submission that succeeds adds exactly one contact record  *)
(* with the trimmed name, email and message; submissions are never merged  *)
(* with, or refused for, a record already stored, and ids stay distinct.   *)
C8_SubmissionAddsOneRecord ==
    /\ [](\A i, j \in DOMAIN contacts : contacts[i].id = contacts[j].id => i = j)
    /\ [][/\ \A p \in Workers : Moves(p, "idle", "con_respond") =>
               LET b == req'[p].body
                   rec == contacts'[Len(contacts')]
               IN  /\ Len(contacts') = Len(contacts) + 1
                   /\ SubSeq(contacts', 1, Len(contacts)) = contacts
                   /\ \A i \in 1..Len(contacts) : contacts[i].id # rec.id
                   /\ IsTrimOf(rec.name, b.name)
                   /\ IsTrimOf(rec.email, b.email)
                   /\ IsTrimOf(rec.message, b.message)
                   /\ loc'[p].id = rec.id
                   /\ tables' = tables /\ coefficients' = coefficients
                   /\ calculations' = calculations
          /\ \A p \in Workers :
               (Moves(p, "con_respond", "idle") /\ sent'.resp.status = 200) =>
                   /\ sent'.req = req[p]
                   /\ sent'.resp.submission_id = loc[p].id
                   /\ store' = store
          /\ (Answered("contact") /\ sent'.resp.status = 200) =>
               \E p \in Workers : Moves(p, "con_respond", "idle")
          /\ \A p \in Workers :
               pc'[p] = "con_respond" => pc[p] \in {"idle", "con_respond"}
          /\ contacts' # contacts =>
               Drops \/ \E p \in Workers : Moves(p, "idle", "con_respond")
          /\ (/\ Answered("contact")
              /\ sent'.req.body.present
              /\ HasText(sent'.req.body.name)
              /\ HasText(sent'.req.body.email)
              /\ HasText(sent'.req.body.message)
              /\ Contains(sent'.req.body.email, "@")
              /\ Contains(sent'.req.body.email, "."))
             => sent'.resp.status # 400
         ]_vars

\* two submissions of the same content succeeded: two records, two ids
C8_Witness ==
    /\ Len(contacts) = 2
    /\ contacts[1].name = contacts[2].name
    /\ contacts[1].email = contacts[2].email
    /\ contacts[1].message = contacts[2].message
    /\ contacts[1].phone = contacts[2].phone
    /\ contacts[1].id # contacts[2].id
    /\ contacts[1].name = <<"a">>
    /\ sent.req.op = "contact"
    /\ sent.resp.status = 200

(* C9: the coefficients table holds at most one row in every reachable     *)
(* state.                                                                  *)
C9_AtMostOneRow == Cardinality(coefficients) <= 1

(* C10: every stored coefficients row has distance_coefficient >= 0,       *)
(* weight_coefficient >= 0 and base_cost >= 0.                             *)
C10_RowsNonNegative ==
    \A r \in coefficients :
        /\ FGe(r.distance_coefficient, F(0))
        /\ FGe(r.weight_coefficient, F(0))
        /\ FGe(r.base_cost, F(0))

====
